---- MODULE Spec2Model ----
(***************************************************************************)
(* Random connectivity generators of brainpy/connect/random_conn.py.       *)
(*                                                                         *)
(* A run constructs one connector (its __init__), binds it to a pair of    *)
(* population sizes and then runs one of its native builders to the end.   *)
(* A builder's Python loop is followed iteration by iteration: pc = "loop" *)
(* and i is the loop index; the representation is published in out by the  *)
(* builder's last step only.  The builders that grow a graph keep their    *)
(* matrix in conn and their other local variables in loc; a builder whose  *)
(* inner loop can never end stops in pc = "hang".                          *)
(*                                                                         *)
(* Numbers.  A probability is the integer k standing for k/Den, and a      *)
(* uniform draw of rng.random(), which lies in [0, 1), is one of           *)
(* 0 .. Den-1 standing for d/Den.  int(n * k/Den) is (n * k) \div Den for  *)
(* the non-negative products the code computes.                            *)
(***************************************************************************)
EXTENDS Integers, Sequences, FiniteSets, TLC

MaxPre == 3
MaxPost == 2
Den == 2

VARIABLES
  cls,       \* class of the connector constructed
  par,       \* its parameters (self.prob, self.pre_ratio, self.num, self.include_self)
  pre_num,   \* self.pre_num once bound
  post_num,  \* self.post_num once bound
  pc,        \* "new", "made", "bound", "loop", "done", "hang", "ctor_error", "build_error"
  err,       \* the exception raised, or "none"
  builder,   \* the native builder that runs
  i,         \* index of the builder's loop
  pre_ids,   \* pre_ids of build_coo / build_csr
  rows,      \* what the loop has gathered, one entry per iteration
  out,       \* the representation returned
  seed_gen,  \* how many times self.seed was re-derived from self.rng
  pre_size,  \* self.pre_size once bound: the shape, one length per axis
  post_size, \* self.post_size once bound
  conn,      \* the boolean matrix conn a growth builder fills
  loc,       \* the other local variables of the builder that runs
  insts,     \* two connectors of one class, parameters and shapes: what each owns
  sources,   \* the random sources of the process that no connector owns
  cache,     \* the connector's cache: requested format -> built representation
  first,     \* per format, the representation the first require of it returned
  req        \* the latest require call: its format, how it ended, what it returned

vars == <<cls, par, pre_num, post_num, pc, err, builder, i, pre_ids, rows, out, seed_gen,
          pre_size, post_size, conn, loc, insts, sources, cache, first, req>>

(***************************************************************************)
(* Array primitives of numpy / jax used by the builders.                   *)
(***************************************************************************)
Min(a, b) == IF a <= b THEN a ELSE b

Max(a, b) == IF a >= b THEN a ELSE b

\* np.arange(n): <<0, ..., n-1>>
Arange(n) == [k \in 1..n |-> k - 1]

\* every ordering of the set S, as a sequence
Perms(S) == {p \in [1..Cardinality(S) -> S] : \A a, b \in 1..Cardinality(S) : a # b => p[a] # p[b]}

\* rng.permutation(s): every reordering of the sequence s
Permutation(s) == {[k \in 1..Len(s) |-> s[p[k]]] : p \in Perms(1..Len(s))}

\* s[:k] for k >= 0
Take(s, k) == SubSeq(s, 1, Min(k, Len(s)))

\* s[a:b] for 0 <= a, with Python's clipping at the end of s
Slice(s, a, b) == SubSeq(s, a + 1, Min(b, Len(s)))

\* np.repeat(s, k)
Repeat(s, k) == [n \in 1..(Len(s) * k) |-> s[((n - 1) \div k) + 1]]

RECURSIVE Concatenate(_)
\* np.concatenate(list of arrays)
Concatenate(ss) == IF ss = <<>> THEN <<>> ELSE Head(ss) \o Concatenate(Tail(ss))

RECURSIVE SumSeq(_)
SumSeq(s) == IF s = <<>> THEN 0 ELSE Head(s) + SumSeq(Tail(s))

\* np.cumsum(s)
CumSum(s) == [n \in 1..Len(s) |-> SumSeq(SubSeq(s, 1, n))]

\* np.argsort(prob) over the indices 0..n-1: every ordering that sorts prob
\* ascending (the default sort is not stable, so ties come in any order)
Argsort(prob, n) == {p \in Perms(0..(n - 1)) : \A a, b \in 1..n : a < b => prob[p[a]] <= prob[p[b]]}

\* the indices of a sequence at which an element equal to x stands
Positions(s, x) == {k \in 1..Len(s) : s[k] = x}

IsDistinct(s) == \A a, b \in 1..Len(s) : a # b => s[a] # s[b]

(***************************************************************************)
(* State before construction.                                              *)
(***************************************************************************)
NoPar == [kind |-> "none"]

NoOut == [fmt |-> "none"]

NoLoc == [kind |-> "none"]

\* the formats a representation can be required in
Formats == {"mat", "coo", "csr"}

\* a connector of the pair that is not constructed yet
NoInst == [pc |-> "new"]

\* the random sources when no pair of connectors is followed
NoSources == [SUPPORT_NUMBA |-> FALSE]

\* no require call made yet
NoReq == [fmt |-> "none", state |-> "none", again |-> FALSE, seed_gen |-> 0, ret |-> NoOut]

\* the connector before construction, whatever the random sources of the process
InitConnector ==
  /\ cls = "none"
  /\ par = NoPar
  /\ pre_num = 0
  /\ post_num = 0
  /\ pc = "new"
  /\ err = "none"
  /\ builder = "none"
  /\ i = 0
  /\ pre_ids = <<>>
  /\ rows = <<>>
  /\ out = NoOut
  /\ seed_gen = 0
  /\ pre_size = <<>>
  /\ post_size = <<>>
  /\ conn = <<>>
  /\ loc = NoLoc
  /\ insts = [k \in 1..2 |-> NoInst]
  /\ cache = [f \in Formats |-> NoOut]
  /\ first = [f \in Formats |-> NoOut]
  /\ req = NoReq

Init == InitConnector /\ sources = NoSources

\* connector(pre_size, post_size): binds the population sizes
Bind(p, q) ==
  /\ pc = "made"
  /\ pre_num' = p
  /\ post_num' = q
  /\ pre_size' = <<p>>
  /\ post_size' = <<q>>
  /\ pc' = "bound"
  /\ UNCHANGED <<cls, par, err, builder, i, pre_ids, insts, sources, cache, first, req, rows, out, seed_gen, conn, loc>>

\* a builder raises: no representation is returned
Raise(kind) ==
  /\ pc' = "build_error"
  /\ err' = kind
  /\ UNCHANGED <<cls, par, pre_num, post_num, pre_size, post_size, conn, loc, builder, i, pre_ids, insts, sources, cache, first, req, rows, out>>

(***************************************************************************)
(* FixedNum, FixedPreNum, FixedPostNum                                     *)
(***************************************************************************)
\* the arguments tried for num: an int, a float k/Den, or another type
NumValues ==
  [kind : {"int"}, val : -1..(Max(MaxPre, MaxPost) + 1)]
    \cup [kind : {"float"}, val : -1..(Den + 1)]
    \cup {[kind |-> "str", val |-> 0]}

\* FixedNum.__init__, the checks on num: the error raised, or "none"
FixedNum_init_check(num) ==
  IF num.kind = "int"
  THEN IF num.val >= 0 THEN "none" ELSE "AssertionError"
  ELSE IF num.kind = "float"
       THEN IF 0 <= num.val /\ num.val <= Den THEN "none" ELSE "AssertionError"
       ELSE "ConnectorError"

FixedNum_init(c, num, include_self) ==
  /\ pc = "new"
  /\ cls' = c
  /\ par' = [kind |-> "FixedNum", num |-> num, include_self |-> include_self]
  /\ err' = FixedNum_init_check(num)
  /\ pc' = IF FixedNum_init_check(num) = "none" THEN "made" ELSE "ctor_error"
  /\ UNCHANGED <<pre_num, post_num, pre_size, post_size, conn, loc, builder, i, pre_ids, insts, sources, cache, first, req, rows, out, seed_gen>>

\* the check without its upper bound on an integer num
FixedNum_check_no_upper(num, total) ==
  IF num.kind = "int"
  THEN 0 <= num.val
  ELSE 0 <= num.val /\ num.val <= Den

\* build_conn's "# check": does the assertion on self.num pass
FixedNum_check(num, total) ==
  IF num.kind = "int"
  THEN 0 <= num.val /\ num.val <= total
  ELSE 0 <= num.val /\ num.val <= Den

\* build_conn's "# check": the local num
FixedNum_num(num, total) ==
  IF num.kind = "int" THEN num.val ELSE (total * num.val) \div Den

\* _fixed_num_prob(num_need, num_total, i) on the draws prob = rng.random(num_total):
\* the outcomes, each either the selected indices or the error raised.
\* With i = num_total the write prob[i] = 1. is out of bounds: numpy raises
\* IndexError, the numba-compiled function does no bounds check and writes past
\* the array, which leaves prob as drawn.
fixed_num_prob(num_need, num_total, idx, include_self, draws) ==
  IF (~include_self) /\ idx <= num_total
  THEN IF idx < num_total
       THEN {[raised |-> "none", neu_idx |-> Take(p, num_need)] :
               p \in Argsort([draws EXCEPT ![idx] = Den], num_total)}
       ELSE {[raised |-> "IndexError", neu_idx |-> <<>>]}
              \cup {[raised |-> "none", neu_idx |-> Take(p, num_need)] :
                      p \in Argsort(draws, num_total)}
  ELSE {[raised |-> "none", neu_idx |-> Take(p, num_need)] : p \in Argsort(draws, num_total)}

\* rng.random(n): n draws, indexed 0..n-1
Draws(n) == [0..(n - 1) -> 0..(Den - 1)]

\* FixedPostNum.build_conn up to the loop: the check and the reseeding
FixedPostNum_build_conn ==
  /\ pc = "bound"
  /\ cls = "FixedPostNum"
  /\ IF FixedNum_check(par.num, post_num)
     THEN /\ pc' = "loop"
          /\ builder' = "build_conn"
          /\ i' = 0
          /\ rows' = <<>>
          /\ seed_gen' = seed_gen + 1
          /\ UNCHANGED <<cls, par, pre_num, post_num, pre_size, post_size, conn, loc, err, pre_ids, insts, sources, cache, first, req, out>>
     ELSE Raise("AssertionError") /\ UNCHANGED seed_gen

\* one iteration of "for i in range(self.pre_num)"
FixedPostNum_connect ==
  /\ pc = "loop"
  /\ cls = "FixedPostNum"
  /\ i < pre_num
  /\ \E draws \in Draws(post_num) :
       \E r \in fixed_num_prob(FixedNum_num(par.num, post_num), post_num, i, par.include_self, draws) :
         IF r.raised = "none"
         THEN /\ rows' = Append(rows, r.neu_idx)
              /\ i' = i + 1
              /\ UNCHANGED <<cls, par, pre_num, post_num, pre_size, post_size, conn, loc, pc, err, builder, pre_ids, insts, sources, cache, first, req, out, seed_gen>>
         ELSE Raise(r.raised) /\ UNCHANGED seed_gen

\* after the loop: 'csr', (post_ids, indptr)
FixedPostNum_return ==
  /\ pc = "loop"
  /\ cls = "FixedPostNum"
  /\ i = pre_num
  /\ out' = [fmt |-> "csr",
             ind |-> Concatenate(rows),
             indptr |-> CumSum(<<0>> \o [k \in 1..pre_num |-> FixedNum_num(par.num, post_num)])]
  /\ pc' = "done"
  /\ UNCHANGED <<cls, par, pre_num, post_num, pre_size, post_size, conn, loc, err, builder, i, pre_ids, insts, sources, cache, first, req, rows, seed_gen>>

\* FixedPreNum.build_conn up to the loop: the check and the reseeding
FixedPreNum_build_conn ==
  /\ pc = "bound"
  /\ cls = "FixedPreNum"
  /\ IF FixedNum_check(par.num, pre_num)
     THEN /\ pc' = "loop"
          /\ builder' = "build_conn"
          /\ i' = 0
          /\ rows' = <<>>
          /\ seed_gen' = seed_gen + 1
          /\ UNCHANGED <<cls, par, pre_num, post_num, pre_size, post_size, conn, loc, err, pre_ids, insts, sources, cache, first, req, out>>
     ELSE Raise("AssertionError") /\ UNCHANGED seed_gen

\* one iteration of "for i in range(self.post_num)"
FixedPreNum_connect ==
  /\ pc = "loop"
  /\ cls = "FixedPreNum"
  /\ i < post_num
  /\ \E draws \in Draws(pre_num) :
       \E r \in fixed_num_prob(FixedNum_num(par.num, pre_num), pre_num, i, par.include_self, draws) :
         IF r.raised = "none"
         THEN /\ rows' = Append(rows, r.neu_idx)
              /\ i' = i + 1
              /\ UNCHANGED <<cls, par, pre_num, post_num, pre_size, post_size, conn, loc, pc, err, builder, pre_ids, insts, sources, cache, first, req, out, seed_gen>>
         ELSE Raise(r.raised) /\ UNCHANGED seed_gen

\* after the loop: 'ij', (pre_ids, post_ids)
FixedPreNum_return ==
  /\ pc = "loop"
  /\ cls = "FixedPreNum"
  /\ i = post_num
  /\ out' = [fmt |-> "ij",
             pre |-> Concatenate(rows),
             post |-> Repeat(Arange(post_num), FixedNum_num(par.num, pre_num))]
  /\ pc' = "done"
  /\ UNCHANGED <<cls, par, pre_num, post_num, pre_size, post_size, conn, loc, err, builder, i, pre_ids, insts, sources, cache, first, req, rows, seed_gen>>

NextFixedNum ==
  \/ \E c \in {"FixedPreNum", "FixedPostNum"}, num \in NumValues, include_self \in BOOLEAN :
       FixedNum_init(c, num, include_self)
  \/ \E p \in 1..MaxPre, q \in 1..MaxPost : Bind(p, q)
  \/ FixedPostNum_build_conn
  \/ FixedPostNum_connect
  \/ FixedPostNum_return
  \/ FixedPreNum_build_conn
  \/ FixedPreNum_connect
  \/ FixedPreNum_return

SpecFixedNum == Init /\ [][NextFixedNum]_vars

(***************************************************************************)
(* FixedProb                                                               *)
(***************************************************************************)
\* the arguments tried for prob and for pre_ratio, as k/Den
ProbValues == -1..(Den + 1)

RatioValues == 0..(Den + 1)

\* FixedProb.__init__: "assert 0. <= prob <= 1." is its only check
FixedProb_init(prob, pre_ratio, include_self) ==
  /\ pc = "new"
  /\ cls' = "FixedProb"
  /\ par' = [kind |-> "FixedProb", prob |-> prob, pre_ratio |-> pre_ratio, include_self |-> include_self]
  /\ err' = IF 0 <= prob /\ prob <= Den THEN "none" ELSE "AssertionError"
  /\ pc' = IF 0 <= prob /\ prob <= Den THEN "made" ELSE "ctor_error"
  /\ UNCHANGED <<pre_num, post_num, pre_size, post_size, conn, loc, builder, i, pre_ids, insts, sources, cache, first, req, rows, out, seed_gen>>

RECURSIVE Where(_, _)
\* np.where(p)[0] for a boolean array p over 0..n-1: the true indices, ascending
Where(p, n) == IF n = 0 THEN <<>> ELSE Where(p, n - 1) \o (IF p[n - 1] THEN <<n - 1>> ELSE <<>>)

\* f_connect(pre_i, num_post) of build_conn on the draws d0 = rng.random() and
\* draws = rng.random(num_post): ret is FALSE when the function returns None
f_connect(pre_i, num_post, d0, draws) ==
  IF d0 < par.pre_ratio
  THEN [ret |-> TRUE,
        posts |-> Where([j \in 0..(num_post - 1) |->
                           /\ draws[j] <= par.prob
                           /\ ~((~par.include_self) /\ pre_i < num_post /\ j = pre_i)],
                        num_post)]
  ELSE [ret |-> FALSE, posts |-> <<>>]

\* FixedProb.build_conn up to the loop (the seed is reused, not re-derived)
FixedProb_build_conn ==
  /\ pc = "bound"
  /\ cls = "FixedProb"
  /\ pc' = "loop"
  /\ builder' = "build_conn"
  /\ i' = 0
  /\ rows' = <<>>
  /\ UNCHANGED <<cls, par, pre_num, post_num, pre_size, post_size, conn, loc, err, pre_ids, insts, sources, cache, first, req, out, seed_gen>>

\* one iteration of "for i in range(self.pre_num)"
FixedProb_build_conn_connect ==
  /\ pc = "loop"
  /\ cls = "FixedProb"
  /\ builder = "build_conn"
  /\ i < pre_num
  /\ \E d0 \in 0..(Den - 1), draws \in Draws(post_num) :
       rows' = Append(rows, f_connect(i, post_num, d0, draws))
  /\ i' = i + 1
  /\ UNCHANGED <<cls, par, pre_num, post_num, pre_size, post_size, conn, loc, pc, err, builder, pre_ids, insts, sources, cache, first, req, out, seed_gen>>

\* after the loop: count[i] = len(posts) where posts is not None; 'csr', (ind, indptr)
FixedProb_build_conn_return ==
  /\ pc = "loop"
  /\ cls = "FixedProb"
  /\ builder = "build_conn"
  /\ i = pre_num
  /\ out' = [fmt |-> "csr",
             ind |-> Concatenate([k \in 1..Len(rows) |-> rows[k].posts]),
             indptr |-> CumSum(<<0>> \o [k \in 1..pre_num |-> IF rows[k].ret THEN Len(rows[k].posts) ELSE 0])]
  /\ pc' = "done"
  /\ UNCHANGED <<cls, par, pre_num, post_num, pre_size, post_size, conn, loc, err, builder, i, pre_ids, insts, sources, cache, first, req, rows, seed_gen>>

\* FixedProb.build_mat; the two rng.rand arrays are drawn a row at a time
FixedProb_build_mat ==
  /\ pc = "bound"
  /\ cls = "FixedProb"
  /\ pc' = "loop"
  /\ builder' = "build_mat"
  /\ i' = 0
  /\ rows' = <<>>
  /\ UNCHANGED <<cls, par, pre_num, post_num, pre_size, post_size, conn, loc, err, pre_ids, insts, sources, cache, first, req, out, seed_gen>>

\* row r of (rng.rand(pre_num, post_num) < prob) * pre_state
mat_row(d0, draws) ==
  [ret |-> d0 < par.pre_ratio,
   posts |-> Where([j \in 0..(post_num - 1) |-> draws[j] < par.prob /\ d0 < par.pre_ratio], post_num)]

FixedProb_build_mat_row ==
  /\ pc = "loop"
  /\ cls = "FixedProb"
  /\ builder = "build_mat"
  /\ i < pre_num
  /\ \E d0 \in 0..(Den - 1), draws \in Draws(post_num) :
       rows' = Append(rows, mat_row(d0, draws))
  /\ i' = i + 1
  /\ UNCHANGED <<cls, par, pre_num, post_num, pre_size, post_size, conn, loc, pc, err, builder, pre_ids, insts, sources, cache, first, req, out, seed_gen>>

\* bm.fill_diagonal(mat, False) when include_self is false, on the cell (r, c)
fill_diagonal(include_self, r, c, v) == IF (~include_self) /\ r = c THEN FALSE ELSE v

FixedProb_build_mat_return ==
  /\ pc = "loop"
  /\ cls = "FixedProb"
  /\ builder = "build_mat"
  /\ i = pre_num
  /\ out' = [fmt |-> "mat",
             mat |-> [r \in 0..(pre_num - 1) |->
                        [c \in 0..(post_num - 1) |->
                           fill_diagonal(par.include_self, r, c, Positions(rows[r + 1].posts, c) # {})]]]
  /\ pc' = "done"
  /\ UNCHANGED <<cls, par, pre_num, post_num, pre_size, post_size, conn, loc, err, builder, i, pre_ids, insts, sources, cache, first, req, rows, seed_gen>>

\* post_num_to_select = int(post_num * self.prob)
post_num_to_select == (post_num * par.prob) \div Den

\* pre_num_to_select of build_csr
pre_num_to_select == IF par.pre_ratio < Den THEN (pre_num * par.pre_ratio) \div Den ELSE pre_num

\* rng.choice(n, size=k, replace=False): k distinct indices in any order
Choice(n, k) == {s \in [1..k -> 0..(n - 1)] : \A a, b \in 1..k : a # b => s[a] # s[b]}

\* the pre_ids build_coo and build_csr choose
SelectPre == IF par.pre_ratio < Den THEN Choice(pre_num, (pre_num * par.pre_ratio) \div Den) ELSE {Arange(pre_num)}

\* jnp.delete(s, idx) for a traced scalar idx >= 0: idx is clipped to len(s)
Delete(s, idx) == [k \in 1..(Len(s) - 1) |-> IF k - 1 < idx THEN s[k] ELSE s[k + 1]]

\* f with the include_self test inverted
vmap_f_inverted(idx) ==
  {Take(p, post_num_to_select) :
     p \in Permutation(IF par.include_self THEN Delete(Arange(post_num), idx) ELSE Arange(post_num))}

\* f(i, key) of build_coo and build_csr: the rows it can return for pre index idx
vmap_f(idx) ==
  {Take(p, post_num_to_select) :
     p \in Permutation(IF ~par.include_self THEN Delete(Arange(post_num), idx) ELSE Arange(post_num))}

\* FixedProb.build_coo up to the vmapped f
FixedProb_build_coo ==
  /\ pc = "bound"
  /\ cls = "FixedProb"
  /\ pc' = "loop"
  /\ builder' = "build_coo"
  /\ i' = 0
  /\ rows' = <<>>
  /\ pre_ids' \in SelectPre
  /\ UNCHANGED <<cls, par, pre_num, post_num, pre_size, post_size, conn, loc, err, out, seed_gen, insts, sources, cache, first, req>>

FixedProb_build_coo_f ==
  /\ pc = "loop"
  /\ cls = "FixedProb"
  /\ builder = "build_coo"
  /\ i < Len(pre_ids)
  /\ \E row \in vmap_f(pre_ids[i + 1]) : rows' = Append(rows, row)
  /\ i' = i + 1
  /\ UNCHANGED <<cls, par, pre_num, post_num, pre_size, post_size, conn, loc, pc, err, builder, pre_ids, insts, sources, cache, first, req, out, seed_gen>>

FixedProb_build_coo_return ==
  /\ pc = "loop"
  /\ cls = "FixedProb"
  /\ builder = "build_coo"
  /\ i = Len(pre_ids)
  /\ out' = [fmt |-> "coo",
             pre |-> Repeat(pre_ids, post_num_to_select),
             post |-> Concatenate(rows)]
  /\ pc' = "done"
  /\ UNCHANGED <<cls, par, pre_num, post_num, pre_size, post_size, conn, loc, err, builder, i, pre_ids, insts, sources, cache, first, req, rows, seed_gen>>

\* FixedProb.build_csr up to the vmapped f
FixedProb_build_csr ==
  /\ pc = "bound"
  /\ cls = "FixedProb"
  /\ pc' = "loop"
  /\ builder' = "build_csr"
  /\ i' = 0
  /\ rows' = <<>>
  /\ pre_ids' \in SelectPre
  /\ UNCHANGED <<cls, par, pre_num, post_num, pre_size, post_size, conn, loc, err, out, seed_gen, insts, sources, cache, first, req>>

FixedProb_build_csr_f ==
  /\ pc = "loop"
  /\ cls = "FixedProb"
  /\ builder = "build_csr"
  /\ i < Len(pre_ids)
  /\ \E row \in vmap_f(pre_ids[i + 1]) : rows' = Append(rows, row)
  /\ i' = i + 1
  /\ UNCHANGED <<cls, par, pre_num, post_num, pre_size, post_size, conn, loc, pc, err, builder, pre_ids, insts, sources, cache, first, req, out, seed_gen>>

FixedProb_build_csr_return ==
  /\ pc = "loop"
  /\ cls = "FixedProb"
  /\ builder = "build_csr"
  /\ i = Len(pre_ids)
  /\ out' = [fmt |-> "csr",
             ind |-> Concatenate(rows),
             indptr |-> CumSum(<<0>> \o [k \in 1..pre_num_to_select |-> post_num_to_select])]
  /\ pc' = "done"
  /\ UNCHANGED <<cls, par, pre_num, post_num, pre_size, post_size, conn, loc, err, builder, i, pre_ids, insts, sources, cache, first, req, rows, seed_gen>>

NextFixedProb ==
  \/ \E prob \in ProbValues, pre_ratio \in RatioValues, include_self \in BOOLEAN :
       FixedProb_init(prob, pre_ratio, include_self)
  \/ \E p \in 1..MaxPre, q \in 1..MaxPost : Bind(p, q)
  \/ FixedProb_build_conn
  \/ FixedProb_build_conn_connect
  \/ FixedProb_build_conn_return
  \/ FixedProb_build_mat
  \/ FixedProb_build_mat_row
  \/ FixedProb_build_mat_return
  \/ FixedProb_build_coo
  \/ FixedProb_build_coo_f
  \/ FixedProb_build_coo_return
  \/ FixedProb_build_csr
  \/ FixedProb_build_csr_f
  \/ FixedProb_build_csr_return

SpecFixedProb == Init /\ [][NextFixedProb]_vars

(***************************************************************************)
(* Reading a returned representation.                                      *)
(***************************************************************************)
\* post_ids[indptr[r]:indptr[r+1]], the row of pre index r as a consumer reads it
CsrRow(o, r) == IF r + 2 <= Len(o.indptr) THEN Slice(o.ind, o.indptr[r + 1], o.indptr[r + 2]) ELSE <<>>

\* how many times the representation o holds the edge (a, b)
EdgeCount(o, a, b) ==
  IF o.fmt = "csr" THEN Cardinality(Positions(CsrRow(o, a), b))
  ELSE IF o.fmt \in {"coo", "ij"}
       THEN Cardinality({k \in 1..Min(Len(o.pre), Len(o.post)) : o.pre[k] = a /\ o.post[k] = b})
       ELSE IF o.fmt = "mat" THEN (IF o.mat[a][b] THEN 1 ELSE 0) ELSE 0

\* how many entries the representation o holds
EntryCount(o) ==
  IF o.fmt = "csr" THEN Len(o.ind)
  ELSE IF o.fmt \in {"coo", "ij"} THEN Max(Len(o.pre), Len(o.post))
       ELSE IF o.fmt = "mat"
            THEN Cardinality({rc \in (DOMAIN o.mat) \X (0..(post_num - 1)) : o.mat[rc[1]][rc[2]]})
            ELSE 0

\* the CSR invariants of a pair (post_ids, indptr) over n rows
WellFormedCsr(o, n) ==
  /\ Len(o.indptr) = n + 1
  /\ o.indptr[1] = 0
  /\ \A k \in 1..(Len(o.indptr) - 1) : o.indptr[k] <= o.indptr[k + 1]
  /\ o.indptr[Len(o.indptr)] = Len(o.ind)

\* the population num is measured against
Opposite == IF cls = "FixedPreNum" THEN pre_num ELSE post_num

IsFixedNum == pc # "new" /\ par.kind = "FixedNum"

IsFixedProb == pc # "new" /\ par.kind = "FixedProb"

BuildEnded == pc \in {"done", "build_error"}

(***************************************************************************)
(* Claims                                                                  *)
(***************************************************************************)
\* C1: for every pair of sizes and every integer num with 0 <= num <= the
\* opposite size, FixedPostNum.build_conn returns a CSR in which every pre index
\* has exactly num pairwise distinct post indices, and FixedPreNum.build_conn a
\* pair list in which every post index has exactly num pairwise distinct pre
\* indices.
C1_DegreeExact ==
  (IsFixedNum /\ BuildEnded /\ par.num.kind = "int" /\ par.num.val <= Opposite) =>
    /\ pc = "done"
    /\ cls = "FixedPostNum" =>
         \A r \in 0..(pre_num - 1) :
           /\ Len(CsrRow(out, r)) = par.num.val
           /\ IsDistinct(CsrRow(out, r))
    /\ cls = "FixedPreNum" =>
         /\ Len(out.pre) = Len(out.post)
         /\ \A c \in 0..(post_num - 1) :
              /\ Cardinality(Positions(out.post, c)) = par.num.val
              /\ \A a, b \in Positions(out.post, c) : a # b => out.pre[a] # out.pre[b]

\* C2: with include_self = False and an integer num up to and including the
\* opposite size, a finished FixedPostNum / FixedPreNum build holds no edge (a, a).
C2_NoSelfEdge ==
  (IsFixedNum /\ pc = "done" /\ par.num.kind = "int" /\ ~par.include_self) =>
    \A a \in 0..(Min(pre_num, post_num) - 1) : EdgeCount(out, a, a) = 0

\* C3: FixedProb with prob = 0 returns a representation without edges from each
\* of build_conn, build_mat, build_coo and build_csr.
C3_ProbZeroNoEdges ==
  (IsFixedProb /\ pc = "done" /\ par.prob = 0) => EntryCount(out) = 0

\* C4: FixedProb with prob = 1, include_self = True and pre_ratio = 1 returns the
\* complete bipartite graph from each builder: every pair (a, b) exactly once and
\* nothing else.
C4_ProbOneComplete ==
  (IsFixedProb /\ pc = "done" /\ par.prob = Den /\ par.pre_ratio = Den /\ par.include_self) =>
    /\ \A a \in 0..(pre_num - 1), b \in 0..(post_num - 1) : EdgeCount(out, a, b) = 1
    /\ EntryCount(out) = pre_num * post_num
    /\ out.fmt \in {"coo", "ij"} => Len(out.pre) = Len(out.post)
    /\ out.fmt = "csr" => WellFormedCsr(out, pre_num)

C4_Witness ==
  /\ IsFixedProb /\ pc = "done" /\ par.prob = Den /\ par.pre_ratio = Den /\ par.include_self
  /\ builder = "build_csr"
  /\ pre_num = MaxPre
  /\ post_num = MaxPost

\* C5: every CSR pair returned by FixedProb.build_conn, FixedProb.build_csr and
\* FixedPostNum.build_conn is well formed over pre_num rows, and a pre index that
\* was not selected has an empty row.
C5_CsrWellFormed ==
  (pc = "done" /\ out.fmt = "csr") =>
    /\ WellFormedCsr(out, pre_num)
    /\ (cls = "FixedProb" /\ builder = "build_conn") =>
         \A r \in 0..(pre_num - 1) : ~rows[r + 1].ret => CsrRow(out, r) = <<>>
    /\ (cls = "FixedProb" /\ builder = "build_csr") =>
         \A r \in 0..(pre_num - 1) : Positions(pre_ids, r) = {} => CsrRow(out, r) = <<>>

\* C6: the two arrays FixedProb.build_coo returns have the same length.
C6_CooEqualLength ==
  (IsFixedProb /\ pc = "done" /\ out.fmt = "coo") => Len(out.pre) = Len(out.post)

C8_ProbValidatedAtInit ==
  (IsFixedProb /\ ~(0 <= par.prob /\ par.prob <= Den /\ 0 <= par.pre_ratio /\ par.pre_ratio <= Den)) =>
    (pc = "ctor_error" /\ err = "ConnectorError")

\* C9: an invalid parameter combination found at build time ends the build in
\* ConnectorError with no representation returned (here: an integer num larger
\* than the opposite population).
C9_BuildErrorIsConnectorError ==
  (IsFixedNum /\ pc \in {"loop", "done", "build_error"} /\ par.num.kind = "int" /\ par.num.val > Opposite) =>
    (pc = "build_error" /\ err = "ConnectorError" /\ out = NoOut)

\* whether num is an integer above the opposite population or a fraction outside [0, 1]
NumInvalid ==
  \/ par.num.kind = "int" /\ pc \notin {"made", "ctor_error"} /\ par.num.val > Opposite
  \/ par.num.kind = "float" /\ ~(0 <= par.num.val /\ par.num.val <= Den)

\* C10: FixedPreNum and FixedPostNum end in an error, with no edges, whenever an
\* integer num exceeds the opposite population size or a fractional num lies
\* outside [0, 1]; the build never runs with num cut down to the population size.
C10_NumOutOfRangeFails ==
  (IsFixedNum /\ NumInvalid) =>
    /\ pc \in {"bound", "ctor_error", "build_error"}
    /\ pc \in {"ctor_error", "build_error"} => (err # "none" /\ out = NoOut)
    /\ rows = <<>>

C10_Witness ==
  /\ IsFixedNum
  /\ pc = "build_error"
  /\ par.num.kind = "int"
  /\ par.num.val = Opposite + 1
  /\ err = "AssertionError"

(***************************************************************************)
(* Shapes.  The growth and distance connectors read self.pre_size and      *)
(* self.post_size, one length per axis.                                    *)
(***************************************************************************)
RECURSIVE Prod(_)
\* np.prod(shape)
Prod(shape) == IF shape = <<>> THEN 1 ELSE Head(shape) * Prod(Tail(shape))

\* connector(pre_size, post_size) for shapes
BindShape(ps, qs) ==
  /\ pc = "made"
  /\ pre_size' = ps
  /\ post_size' = qs
  /\ pre_num' = Prod(ps)
  /\ post_num' = Prod(qs)
  /\ pc' = "bound"
  /\ UNCHANGED <<cls, par, err, builder, i, pre_ids, insts, sources, cache, first, req, rows, out, seed_gen, conn, loc>>

\* np.zeros((n, n)) / np.ones((n, n)) of booleans
Full(n, v) == [r \in 0..(n - 1) |-> [c \in 0..(n - 1) |-> v]]

(***************************************************************************)
(* SmallWorld                                                              *)
(***************************************************************************)
SWMaxNode == 4

\* the shapes tried: rings of 1..SWMaxNode nodes and one grid
SWShapes == {<<n>> : n \in 1..SWMaxNode} \cup {<<2, 2>>}

\* SmallWorld.__init__ stores its arguments without a check
SmallWorld_init(num_neighbor, prob, directed, include_self) ==
  /\ pc = "new"
  /\ cls' = "SmallWorld"
  /\ par' = [kind |-> "SmallWorld", num_neighbor |-> num_neighbor, prob |-> prob,
             directed |-> directed, include_self |-> include_self]
  /\ err' = "none"
  /\ pc' = "made"
  /\ UNCHANGED <<pre_num, post_num, pre_size, post_size, conn, loc, builder, i, pre_ids, insts, sources, cache, first, req, rows, out, seed_gen>>

\* the two lattice loops: is (r, c) set by "for j in range(1, k // 2 + 1)"
Lattice(n, k) ==
  [r \in 0..(n - 1) |-> [c \in 0..(n - 1) |->
     \E j \in 1..(k \div 2) : c = (r + j) % n \/ r = (c + j) % n]]

\* _smallworld_rewire(i, all_j) on the draw d = rng.random(1): the values it can return
smallworld_rewire(u, all_j, n, d) ==
  IF d < par.prob
  THEN LET non_connected == {x \in 0..(n - 1) : ~all_j[x]}
       IN IF Cardinality(non_connected) <= 1
          THEN {-1}
          ELSE IF par.include_self THEN non_connected ELSE non_connected \ {u}
  ELSE {-1}

\* the four assignments with the mirrored two left out
rewired_one_way(c, u, v, w) ==
  [[c EXCEPT ![u][v] = FALSE] EXCEPT ![u][w] = TRUE]

\* the rewiring without the removal of the old edge
rewired_without_removal(c, u, v, w) ==
  [[c EXCEPT ![u][w] = TRUE] EXCEPT ![w][u] = TRUE]

\* conn[u, v] = False; conn[v, u] = False; conn[u, w] = True; conn[w, u] = True
rewired(c, u, v, w) ==
  LET c1 == [c EXCEPT ![u][v] = FALSE]
      c2 == [c1 EXCEPT ![v][u] = FALSE]
      c3 == [c2 EXCEPT ![u][w] = TRUE]
  IN [c3 EXCEPT ![w][u] = TRUE]

\* how many (j, u) iterations the rewiring loops make
SmallWorld_steps == IF par.num_neighbor = pre_num THEN 0 ELSE (par.num_neighbor \div 2) * pre_num

\* SmallWorld.build_conn up to the rewiring loops
SmallWorld_build_conn ==
  /\ pc = "bound"
  /\ cls = "SmallWorld"
  /\ IF pre_size # post_size
     THEN Raise("AssertionError") /\ UNCHANGED seed_gen
     ELSE /\ seed_gen' = seed_gen + 1
          /\ IF Len(pre_size) # 1
             THEN Raise("ConnectorError")
             ELSE IF par.num_neighbor > pre_num
                  THEN Raise("ConnectorError")
                  ELSE /\ conn' = IF par.num_neighbor = pre_num
                                  THEN Full(pre_num, TRUE)
                                  ELSE Lattice(pre_num, par.num_neighbor)
                       /\ pc' = "loop"
                       /\ builder' = "build_conn"
                       /\ i' = 0
                       /\ UNCHANGED <<cls, par, pre_num, post_num, pre_size, post_size, loc, err, pre_ids, insts, sources, cache, first, req, rows, out>>

\* one iteration of "for u, v in zip(nodes, targets)", directed = False
SmallWorld_rewire ==
  /\ pc = "loop"
  /\ cls = "SmallWorld"
  /\ ~par.directed
  /\ i < SmallWorld_steps
  /\ LET j == (i \div pre_num) + 1
         u == i % pre_num
         v == (u + j) % pre_num
     IN \E d \in 0..(Den - 1) :
          \E w \in smallworld_rewire(u, conn[u], pre_num, d) :
            conn' = IF w # -1 THEN rewired(conn, u, v, w) ELSE conn
  /\ i' = i + 1
  /\ UNCHANGED <<cls, par, pre_num, post_num, pre_size, post_size, loc, pc, err, builder, pre_ids, insts, sources, cache, first, req, rows, out, seed_gen>>

\* one iteration with directed = True: self._connect(prob=self.prob, i=u, all_j=conn[u])
\* names a parameter prob that _smallworld_rewire(i, all_j) does not have
SmallWorld_rewire_directed ==
  /\ pc = "loop"
  /\ cls = "SmallWorld"
  /\ par.directed
  /\ i < SmallWorld_steps
  /\ Raise("TypeError")
  /\ UNCHANGED seed_gen

\* return 'mat', conn
SmallWorld_return ==
  /\ pc = "loop"
  /\ cls = "SmallWorld"
  /\ i = SmallWorld_steps
  /\ out' = [fmt |-> "mat", mat |-> conn]
  /\ pc' = "done"
  /\ UNCHANGED <<cls, par, pre_num, post_num, pre_size, post_size, conn, loc, err, builder, i, pre_ids, insts, sources, cache, first, req, rows, seed_gen>>

NextSmallWorld ==
  \/ \E k \in 0..(SWMaxNode + 1), prob \in ProbValues, directed \in BOOLEAN, include_self \in BOOLEAN :
       SmallWorld_init(k, prob, directed, include_self)
  \/ \E ps \in SWShapes, qs \in SWShapes : BindShape(ps, qs)
  \/ SmallWorld_build_conn
  \/ SmallWorld_rewire
  \/ SmallWorld_rewire_directed
  \/ SmallWorld_return

SpecSmallWorld == Init /\ [][NextSmallWorld]_vars

IsSmallWorld == pc # "new" /\ par.kind = "SmallWorld"


\* C11: SmallWorld with prob = 0 and num_neighbor = k < N on a ring of N nodes
\* returns exactly the ring lattice: a is connected to b iff b = (a + d) mod N or
\* b = (a - d) mod N for some d in 1..floor(k / 2).
C11_RingLattice ==
  (IsSmallWorld /\ BuildEnded /\ par.prob = 0 /\ Len(pre_size) = 1 /\ pre_size = post_size
     /\ par.num_neighbor < pre_num) =>
    /\ pc = "done"
    /\ \A a, b \in 0..(pre_num - 1) :
         out.mat[a][b] <=>
           \E d \in 1..(par.num_neighbor \div 2) :
             b = (a + d) % pre_num \/ b = (a - d + pre_num) % pre_num

\* C12: with directed = False the matrix of SmallWorld is symmetric after the
\* lattice construction, after every rewiring step and when it is returned.
C12_Symmetric ==
  (IsSmallWorld /\ ~par.directed /\ pc \in {"loop", "done"}) =>
    /\ \A a, b \in 0..(pre_num - 1) : conn[a][b] = conn[b][a]
    /\ pc = "done" => \A a, b \in 0..(pre_num - 1) : out.mat[a][b] = out.mat[b][a]

C12_Witness ==
  /\ IsSmallWorld /\ ~par.directed /\ pc = "loop"
  /\ 0 < i /\ i < SmallWorld_steps
  /\ par.num_neighbor < pre_num
  /\ conn # Lattice(pre_num, par.num_neighbor)
  /\ \E a \in 0..(pre_num - 1) : conn[a][a]

(***************************************************************************)
(* ScaleFreeBA, ScaleFreeBADual                                            *)
(***************************************************************************)
BAMaxNode == 4

\* the elements of a sequence
Range(s) == {s[k] : k \in 1..Len(s)}

\* list(S) for a set S of node indices, here in ascending order (the order of a
\* set's elements decides nothing the builders compute)
SortedSeq(S) == CHOOSE p \in Perms(S) : \A a, b \in 1..Cardinality(S) : a < b => p[a] < p[b]

\* m draws of rng.choice(seq) collected in a set, without the loop that repeats
\* until m distinct ones are found
random_subset_m_draws(seq, m) ==
  IF m <= 0 THEN {{}} ELSE {T \in SUBSET Range(seq) : T # {} /\ Cardinality(T) <= m}

\* _random_subset(seq, m): the sets the loop "while len(targets) < m" can return;
\* none when seq holds fewer than m distinct elements (the loop never ends)
random_subset(seq, m) ==
  IF m <= 0 THEN {{}} ELSE {T \in SUBSET Range(seq) : Cardinality(T) = m}

\* conn[origins, targets] = True; if not directed: conn[targets, origins] = True
attached(c, source, targets, directed) ==
  [r \in DOMAIN c |-> [k \in DOMAIN c[r] |->
     \/ c[r][k]
     \/ r = source /\ k \in targets
     \/ (~directed) /\ k = source /\ r \in targets]]

\* ScaleFreeBA.__init__ stores its arguments without a check
ScaleFreeBA_init(m, directed) ==
  /\ pc = "new"
  /\ cls' = "ScaleFreeBA"
  /\ par' = [kind |-> "ScaleFreeBA", m |-> m, directed |-> directed]
  /\ err' = "none"
  /\ pc' = "made"
  /\ UNCHANGED <<pre_num, post_num, pre_size, post_size, conn, loc, builder, i, pre_ids, insts, sources, cache, first, req, rows, out, seed_gen>>

\* ScaleFreeBADual.__init__ stores its arguments without a check
ScaleFreeBADual_init(m1, m2, p, directed) ==
  /\ pc = "new"
  /\ cls' = "ScaleFreeBADual"
  /\ par' = [kind |-> "ScaleFreeBADual", m1 |-> m1, m2 |-> m2, p |-> p, directed |-> directed]
  /\ err' = "none"
  /\ pc' = "made"
  /\ UNCHANGED <<pre_num, post_num, pre_size, post_size, conn, loc, builder, i, pre_ids, insts, sources, cache, first, req, rows, out, seed_gen>>

\* ScaleFreeBA.build_conn, the check on m: the error raised, or "none"
ScaleFreeBA_check(m, num_node) ==
  IF m < 1 \/ m >= num_node THEN "ConnectorError" ELSE "none"

\* the three checks without the one on p
ScaleFreeBADual_check_no_p(m1, m2, p, num_node) ==
  IF m1 < 1 \/ m1 >= num_node THEN "ConnectorError"
  ELSE IF m2 < 1 \/ m2 >= num_node THEN "ConnectorError"
  ELSE "none"

\* ScaleFreeBADual.build_conn, the checks on m1, m2 and p
ScaleFreeBADual_check(m1, m2, p, num_node) ==
  IF m1 < 1 \/ m1 >= num_node THEN "ConnectorError"
  ELSE IF m2 < 1 \/ m2 >= num_node THEN "ConnectorError"
  ELSE IF p < 0 \/ p > Den THEN "ConnectorError"
  ELSE "none"

\* ScaleFreeBA.build_conn up to the growth loop
ScaleFreeBA_build_conn ==
  /\ pc = "bound"
  /\ cls = "ScaleFreeBA"
  /\ IF pre_num # post_num
     THEN Raise("AssertionError") /\ UNCHANGED seed_gen
     ELSE /\ seed_gen' = seed_gen + 1
          /\ IF ScaleFreeBA_check(par.m, pre_num) # "none"
             THEN Raise(ScaleFreeBA_check(par.m, pre_num))
             ELSE /\ conn' = Full(pre_num, FALSE)
                  /\ loc' = [kind |-> "growth", m |-> par.m, targets |-> 0..(par.m - 1),
                             repeated_nodes |-> <<>>]
                  /\ i' = par.m
                  /\ pc' = "loop"
                  /\ builder' = "build_conn"
                  /\ UNCHANGED <<cls, par, pre_num, post_num, pre_size, post_size, err, pre_ids, insts, sources, cache, first, req, rows, out>>

\* one iteration of "while source < num_node"; i is source
ScaleFreeBA_attach ==
  /\ pc = "loop"
  /\ cls = "ScaleFreeBA"
  /\ i < pre_num
  /\ conn' = attached(conn, i, loc.targets, par.directed)
  /\ LET repeated_nodes == loc.repeated_nodes \o SortedSeq(loc.targets) \o [k \in 1..par.m |-> i]
     IN IF random_subset(repeated_nodes, par.m) = {}
        THEN /\ pc' = "hang"
             /\ loc' = [loc EXCEPT !.repeated_nodes = repeated_nodes]
             /\ i' = i
        ELSE /\ \E T \in random_subset(repeated_nodes, par.m) :
                  loc' = [loc EXCEPT !.repeated_nodes = repeated_nodes, !.targets = T]
             /\ i' = i + 1
             /\ pc' = pc
  /\ UNCHANGED <<cls, par, pre_num, post_num, pre_size, post_size, err, builder, pre_ids, insts, sources, cache, first, req, rows, out, seed_gen>>

\* return 'mat', conn
ScaleFreeBA_return ==
  /\ pc = "loop"
  /\ cls = "ScaleFreeBA"
  /\ i >= pre_num
  /\ out' = [fmt |-> "mat", mat |-> conn]
  /\ pc' = "done"
  /\ UNCHANGED <<cls, par, pre_num, post_num, pre_size, post_size, conn, loc, err, builder, i, pre_ids, insts, sources, cache, first, req, rows, seed_gen>>

\* ScaleFreeBADual.build_conn up to the growth loop
ScaleFreeBADual_build_conn ==
  /\ pc = "bound"
  /\ cls = "ScaleFreeBADual"
  /\ IF pre_num # post_num
     THEN Raise("AssertionError") /\ UNCHANGED seed_gen
     ELSE /\ seed_gen' = seed_gen + 1
          /\ IF ScaleFreeBADual_check(par.m1, par.m2, par.p, pre_num) # "none"
             THEN Raise(ScaleFreeBADual_check(par.m1, par.m2, par.p, pre_num))
             ELSE /\ conn' = Full(pre_num, FALSE)
                  /\ \E d \in 0..(Den - 1) :
                       LET m == IF d < par.p THEN par.m1 ELSE par.m2
                       IN loc' = [kind |-> "growth", m |-> m, targets |-> 0..(m - 1),
                                  repeated_nodes |-> <<>>]
                  /\ i' = Max(par.m1, par.m2)
                  /\ pc' = "loop"
                  /\ builder' = "build_conn"
                  /\ UNCHANGED <<cls, par, pre_num, post_num, pre_size, post_size, err, pre_ids, insts, sources, cache, first, req, rows, out>>

\* one iteration of "while source < num_node"; i is source, loc.m the m in use
ScaleFreeBADual_attach ==
  /\ pc = "loop"
  /\ cls = "ScaleFreeBADual"
  /\ i < pre_num
  /\ conn' = attached(conn, i, loc.targets, par.directed)
  /\ LET repeated_nodes == loc.repeated_nodes \o SortedSeq(loc.targets) \o [k \in 1..loc.m |-> i]
     IN \E d \in 0..(Den - 1) :
          LET m == IF d < par.p THEN par.m1 ELSE par.m2
          IN IF random_subset(repeated_nodes, m) = {}
             THEN /\ pc' = "hang"
                  /\ loc' = [loc EXCEPT !.repeated_nodes = repeated_nodes, !.m = m]
                  /\ i' = i
             ELSE /\ \E T \in random_subset(repeated_nodes, m) :
                       loc' = [loc EXCEPT !.repeated_nodes = repeated_nodes, !.m = m, !.targets = T]
                  /\ i' = i + 1
                  /\ pc' = pc
  /\ UNCHANGED <<cls, par, pre_num, post_num, pre_size, post_size, err, builder, pre_ids, insts, sources, cache, first, req, rows, out, seed_gen>>

\* return 'mat', conn
ScaleFreeBADual_return ==
  /\ pc = "loop"
  /\ cls = "ScaleFreeBADual"
  /\ i >= pre_num
  /\ out' = [fmt |-> "mat", mat |-> conn]
  /\ pc' = "done"
  /\ UNCHANGED <<cls, par, pre_num, post_num, pre_size, post_size, conn, loc, err, builder, i, pre_ids, insts, sources, cache, first, req, rows, seed_gen>>

NextScaleFree ==
  \/ \E m \in 0..BAMaxNode, directed \in BOOLEAN : ScaleFreeBA_init(m, directed)
  \/ \E m1 \in 0..BAMaxNode, m2 \in 0..BAMaxNode, p \in ProbValues, directed \in BOOLEAN :
       ScaleFreeBADual_init(m1, m2, p, directed)
  \/ \E n \in 1..BAMaxNode, q \in 1..BAMaxNode : Bind(n, q)
  \/ ScaleFreeBA_build_conn
  \/ ScaleFreeBA_attach
  \/ ScaleFreeBA_return
  \/ ScaleFreeBADual_build_conn
  \/ ScaleFreeBADual_attach
  \/ ScaleFreeBADual_return

SpecScaleFree == Init /\ [][NextScaleFree]_vars

IsScaleFreeBA == pc # "new" /\ par.kind = "ScaleFreeBA"

IsScaleFreeBADual == pc # "new" /\ par.kind = "ScaleFreeBADual"

\* C13: in ScaleFreeBA with 1 <= m < N every node s >= m that has had its
\* attachment step holds edges to exactly m distinct nodes of index below s (and
\* none to itself), and in the returned graph its in+out degree is at least m.
C13_AttachExactlyM ==
  (IsScaleFreeBA /\ pc \in {"loop", "done"}) =>
    /\ \A s \in par.m..(i - 1) :
         /\ Cardinality({c \in 0..(s - 1) : conn[s][c]}) = par.m
         /\ ~conn[s][s]
         /\ par.directed => \A c \in 0..(pre_num - 1) : conn[s][c] => c < s
    /\ pc = "done" =>
         /\ i = pre_num
         /\ \A s \in par.m..(pre_num - 1) :
              Cardinality({c \in 0..(pre_num - 1) : out.mat[s][c] \/ out.mat[c][s]}) >= par.m

C13_Witness ==
  /\ IsScaleFreeBA /\ pc = "done"
  /\ par.m = 2
  /\ pre_num = BAMaxNode
  /\ ~out.mat[BAMaxNode - 1][0]

\* C15: on N nodes ScaleFreeBA.build_conn ends in ConnectorError exactly when
\* m < 1 or m >= N, and ScaleFreeBADual.build_conn exactly when m1 or m2 lies
\* outside [1, N-1] or p outside [0, 1]; with any other parameters neither ends
\* in ConnectorError.
C15_ConnectorErrorExactly ==
  /\ (IsScaleFreeBA /\ pc \notin {"made", "bound"} /\ pre_num = post_num) =>
       ((pc = "build_error" /\ err = "ConnectorError") <=> (par.m < 1 \/ par.m >= pre_num))
  /\ (IsScaleFreeBADual /\ pc \notin {"made", "bound"} /\ pre_num = post_num) =>
       ((pc = "build_error" /\ err = "ConnectorError") <=>
          \/ par.m1 < 1 \/ par.m1 > pre_num - 1
          \/ par.m2 < 1 \/ par.m2 > pre_num - 1
          \/ par.p < 0 \/ par.p > Den)
  /\ (IsScaleFreeBA \/ IsScaleFreeBADual) => (err = "ConnectorError" => pc = "build_error")

C15_Witness ==
  /\ IsScaleFreeBADual /\ pc = "build_error" /\ err = "ConnectorError"
  /\ pre_num = post_num
  /\ par.m1 \in 1..(pre_num - 1)
  /\ par.m2 \in 1..(pre_num - 1)
  /\ par.p = Den + 1

(***************************************************************************)
(* PowerLaw                                                                *)
(***************************************************************************)
PLMaxNode == 5

\* PowerLaw.__init__: p outside [0, 1] raises ConnectorError
PowerLaw_init(m, p, directed) ==
  /\ pc = "new"
  /\ cls' = "PowerLaw"
  /\ par' = [kind |-> "PowerLaw", m |-> m, p |-> p, directed |-> directed]
  /\ err' = IF p > Den \/ p < 0 THEN "ConnectorError" ELSE "none"
  /\ pc' = IF p > Den \/ p < 0 THEN "ctor_error" ELSE "made"
  /\ UNCHANGED <<pre_num, post_num, pre_size, post_size, conn, loc, builder, i, pre_ids, insts, sources, cache, first, req, rows, out, seed_gen>>

\* conn[source, target] = True; if not directed: conn[target, source] = True
linked(c, source, target, directed) ==
  IF directed
  THEN [c EXCEPT ![source][target] = TRUE]
  ELSE [[c EXCEPT ![source][target] = TRUE] EXCEPT ![target][source] = TRUE]

\* [nbr for nbr in np.where(conn[target])[0] if not conn[source, nbr] and not nbr == source]
neighborhood(c, source, target) ==
  {nbr \in DOMAIN c : c[target][nbr] /\ ~c[source][nbr] /\ nbr # source}

\* PowerLaw.build_conn up to the growth loop
PowerLaw_build_conn ==
  /\ pc = "bound"
  /\ cls = "PowerLaw"
  /\ IF pre_num # post_num
     THEN Raise("AssertionError") /\ UNCHANGED seed_gen
     ELSE /\ seed_gen' = seed_gen + 1
          /\ IF par.m < 1 \/ pre_num < par.m
             THEN Raise("ConnectorError")
             ELSE /\ conn' = Full(pre_num, FALSE)
                  /\ loc' = [kind |-> "powerlaw", at |-> "outer", repeated_nodes |-> Arange(par.m),
                             possible_targets |-> {}, target |-> -1, count |-> 0]
                  /\ i' = par.m
                  /\ pc' = "loop"
                  /\ builder' = "build_conn"
                  /\ UNCHANGED <<cls, par, pre_num, post_num, pre_size, post_size, err, pre_ids, insts, sources, cache, first, req, rows, out>>

\* top of "while source < num_node": the candidate set and the first attachment
PowerLaw_attach ==
  /\ pc = "loop"
  /\ cls = "PowerLaw"
  /\ loc.at = "outer"
  /\ i < pre_num
  /\ IF random_subset(loc.repeated_nodes, par.m) = {}
     THEN /\ pc' = "hang"
          /\ UNCHANGED <<conn, loc>>
     ELSE /\ \E possible_targets \in random_subset(loc.repeated_nodes, par.m) :
               \E target \in possible_targets :
                 /\ conn' = linked(conn, i, target, par.directed)
                 /\ loc' = [loc EXCEPT !.at = "inner",
                                       !.possible_targets = possible_targets \ {target},
                                       !.target = target,
                                       !.repeated_nodes = Append(loc.repeated_nodes, target),
                                       !.count = 1]
          /\ pc' = pc
  /\ UNCHANGED <<cls, par, pre_num, post_num, pre_size, post_size, err, builder, i, pre_ids, insts, sources, cache, first, req, rows, out, seed_gen>>

\* one iteration of "while count < self.m": a triangle, or else the next candidate
PowerLaw_more ==
  /\ pc = "loop"
  /\ cls = "PowerLaw"
  /\ loc.at = "inner"
  /\ loc.count < par.m
  /\ \E d \in 0..(Den - 1) :
       IF d < par.p /\ neighborhood(conn, i, loc.target) # {}
       THEN \E nbr \in neighborhood(conn, i, loc.target) :
              /\ conn' = linked(conn, i, nbr, par.directed)
              /\ loc' = [loc EXCEPT !.repeated_nodes = Append(loc.repeated_nodes, nbr),
                                    !.count = loc.count + 1]
       ELSE \E target \in loc.possible_targets :
              /\ conn' = linked(conn, i, target, par.directed)
              /\ loc' = [loc EXCEPT !.possible_targets = loc.possible_targets \ {target},
                                    !.target = target,
                                    !.repeated_nodes = Append(loc.repeated_nodes, target),
                                    !.count = loc.count + 1]
  /\ UNCHANGED <<cls, par, pre_num, post_num, pre_size, post_size, pc, err, builder, i, pre_ids, insts, sources, cache, first, req, rows, out, seed_gen>>

\* after the inner loop: repeated_nodes.extend([source] * self.m); source += 1
PowerLaw_next_source ==
  /\ pc = "loop"
  /\ cls = "PowerLaw"
  /\ loc.at = "inner"
  /\ loc.count >= par.m
  /\ loc' = [loc EXCEPT !.at = "outer",
                        !.repeated_nodes = loc.repeated_nodes \o [k \in 1..par.m |-> i]]
  /\ i' = i + 1
  /\ UNCHANGED <<cls, par, pre_num, post_num, pre_size, post_size, conn, pc, err, builder, pre_ids, insts, sources, cache, first, req, rows, out, seed_gen>>

\* return 'mat', conn
PowerLaw_return ==
  /\ pc = "loop"
  /\ cls = "PowerLaw"
  /\ loc.at = "outer"
  /\ i >= pre_num
  /\ out' = [fmt |-> "mat", mat |-> conn]
  /\ pc' = "done"
  /\ UNCHANGED <<cls, par, pre_num, post_num, pre_size, post_size, conn, loc, err, builder, i, pre_ids, insts, sources, cache, first, req, rows, seed_gen>>

NextPowerLaw ==
  \/ \E m \in 0..PLMaxNode, p \in ProbValues, directed \in BOOLEAN : PowerLaw_init(m, p, directed)
  \/ \E n \in 1..PLMaxNode, q \in 1..PLMaxNode : Bind(n, q)
  \/ PowerLaw_build_conn
  \/ PowerLaw_attach
  \/ PowerLaw_more
  \/ PowerLaw_next_source
  \/ PowerLaw_return

SpecPowerLaw == Init /\ [][NextPowerLaw]_vars

IsPowerLaw == pc # "new" /\ par.kind = "PowerLaw"

\* C14: in PowerLaw with 1 <= m <= N every node the growth loop has added ends
\* its step with edges to exactly m pairwise-distinct other nodes, for every p
\* and every outcome of the draws.
C14_StepAddsExactlyM ==
  (IsPowerLaw /\ pc \in {"loop", "done"}) =>
    \A s \in par.m..(i - 1) :
      /\ Cardinality({c \in 0..(s - 1) : conn[s][c]}) = par.m
      /\ ~conn[s][s]

(***************************************************************************)
(* ProbDist                                                                *)
(***************************************************************************)
PDMaxLen == 3

\* the shapes tried: lines of 1..PDMaxLen points and one shape of 2 to 5 axes each
PDShapes ==
  {<<n>> : n \in 1..PDMaxLen} \cup {<<2, 2>>, <<1, 1, 2>>, <<1, 1, 1, 2>>, <<1, 1, 1, 1, 1>>}

Abs(x) == IF x < 0 THEN -x ELSE x

RECURSIVE Unravel(_, _)
\* the position with row-major index idx in a grid of the given shape: the order
\* of the nested loops over post_size, and of pre_ids (np.meshgrid, np.moveaxis
\* and flatten) over pre_size
Unravel(idx, shape) ==
  IF shape = <<>>
  THEN <<>>
  ELSE <<idx \div Prod(Tail(shape))>> \o Unravel(idx % Prod(Tail(shape)), Tail(shape))

RECURSIVE pos2ind(_, _)
\* pos2ind(pos, size): the sum of p * np.prod(size[i + 1:])
pos2ind(pos, size) ==
  IF pos = <<>> THEN 0 ELSE Head(pos) * Prod(Tail(size)) + pos2ind(Tail(pos), Tail(size))

\* np.sum(np.abs(a - b))
SumAbs(a, b) == SumSeq([k \in 1..Len(a) |-> Abs(a[k] - b[k])])

\* np.sum(np.square(a - b))
SumSquare(a, b) == SumSeq([k \in 1..Len(a) |-> (a[k] - b[k]) * (a[k] - b[k])])

\* "d <= dist" with the comparison made strict
within_strict(pre_pos, post_pos, n_dim, dist) ==
  IF n_dim = 1
  THEN SumAbs(pre_pos, post_pos) < dist
  ELSE dist > 0 /\ SumSquare(pre_pos, post_pos) < dist * dist

\* "d <= dist": d is the sum of absolute differences in _connect_1d and the
\* Euclidean distance in _connect_2d, _3d, _4d (compared by its square)
within(pre_pos, post_pos, n_dim, dist) ==
  IF n_dim = 1
  THEN SumAbs(pre_pos, post_pos) <= dist
  ELSE dist >= 0 /\ SumSquare(pre_pos, post_pos) <= dist * dist

\* ProbDist.__init__ stores its arguments without a check
ProbDist_init(dist, prob, pre_ratio, include_self) ==
  /\ pc = "new"
  /\ cls' = "ProbDist"
  /\ par' = [kind |-> "ProbDist", dist |-> dist, prob |-> prob, pre_ratio |-> pre_ratio,
             include_self |-> include_self]
  /\ err' = "none"
  /\ pc' = "made"
  /\ UNCHANGED <<pre_num, post_num, pre_size, post_size, conn, loc, builder, i, pre_ids, insts, sources, cache, first, req, rows, out, seed_gen>>

\* _connect_1d .. _connect_4d(pre_pos, pre_size, post_size, n_dim) on the draw d0
\* and one draw per post position.  normalized_pos is computed by the code and
\* never read: the distance is taken from pre_pos itself.
connect_nd(pre_pos, psize, qsize, n_dim, d0, draws) ==
  IF d0 < par.pre_ratio
  THEN LET hit == [j \in 0..(Prod(qsize) - 1) |->
                     /\ within(pre_pos, Unravel(j, qsize), n_dim, par.dist)
                     /\ ~(pre_pos = Unravel(j, qsize) /\ ~par.include_self)
                     /\ draws[j] <= par.prob]
           js == Where(hit, Prod(qsize))
       IN [pres |-> [k \in 1..Len(js) |-> pos2ind(pre_pos, psize)],
           posts |-> [k \in 1..Len(js) |-> pos2ind(Unravel(js[k], qsize), qsize)]]
  ELSE [pres |-> <<>>, posts |-> <<>>]

\* ProbDist.build_conn up to the loop
ProbDist_build_conn ==
  /\ pc = "bound"
  /\ cls = "ProbDist"
  /\ IF Len(pre_size) # Len(post_size)
     THEN Raise("ValueError") /\ UNCHANGED seed_gen
     ELSE /\ seed_gen' = seed_gen + 1
          /\ IF Len(pre_size) > 4
             THEN Raise("NotImplementedError")
             ELSE /\ pc' = "loop"
                  /\ builder' = "build_conn"
                  /\ i' = 0
                  /\ rows' = <<>>
                  /\ UNCHANGED <<cls, par, pre_num, post_num, pre_size, post_size, conn, loc, err, pre_ids, insts, sources, cache, first, req, out>>

\* one iteration of "for i in range(size)"
ProbDist_connect ==
  /\ pc = "loop"
  /\ cls = "ProbDist"
  /\ i < pre_num
  /\ \E d0 \in 0..(Den - 1), draws \in Draws(post_num) :
       rows' = Append(rows, connect_nd(Unravel(i, pre_size), pre_size, post_size, Len(pre_size), d0, draws))
  /\ i' = i + 1
  /\ UNCHANGED <<cls, par, pre_num, post_num, pre_size, post_size, conn, loc, pc, err, builder, pre_ids, insts, sources, cache, first, req, out, seed_gen>>

\* return 'ij', (np.asarray(connected_pres), np.asarray(connected_posts))
ProbDist_return ==
  /\ pc = "loop"
  /\ cls = "ProbDist"
  /\ i = pre_num
  /\ out' = [fmt |-> "ij",
             pre |-> Concatenate([k \in 1..Len(rows) |-> rows[k].pres]),
             post |-> Concatenate([k \in 1..Len(rows) |-> rows[k].posts])]
  /\ pc' = "done"
  /\ UNCHANGED <<cls, par, pre_num, post_num, pre_size, post_size, conn, loc, err, builder, i, pre_ids, insts, sources, cache, first, req, rows, seed_gen>>

NextProbDist ==
  \/ \E dist \in {0, 1}, prob \in ProbValues, pre_ratio \in RatioValues, include_self \in BOOLEAN :
       ProbDist_init(dist, prob, pre_ratio, include_self)
  \/ \E ps \in PDShapes, qs \in PDShapes : BindShape(ps, qs)
  \/ ProbDist_build_conn
  \/ ProbDist_connect
  \/ ProbDist_return

SpecProbDist == Init /\ [][NextProbDist]_vars

IsProbDist == pc # "new" /\ par.kind = "ProbDist"

\* the square of the distance between post_pos and pre_pos rescaled axis by axis
\* by post_len / pre_len, times the square of np.prod(psize)
RescaledSquare(pre_pos, post_pos, psize, qsize) ==
  SumSeq([k \in 1..Len(psize) |->
            ((post_pos[k] * psize[k] - pre_pos[k] * qsize[k]) * (Prod(psize) \div psize[k]))
              * ((post_pos[k] * psize[k] - pre_pos[k] * qsize[k]) * (Prod(psize) \div psize[k]))])

\* whether post_pos lies within dist of the rescaled pre_pos
RescaledWithin(pre_pos, post_pos, psize, qsize, dist) ==
  RescaledSquare(pre_pos, post_pos, psize, qsize) <= dist * dist * Prod(psize) * Prod(psize)

\* C16: ProbDist measures the distance between a post position and the pre
\* position rescaled axis by axis by post_len / pre_len: every edge it returns
\* joins a pre position to a post position within dist of the rescaled one, and
\* with prob = 1, pre_ratio = 1 and include_self = True every such pair is an edge.
C16_RescaledDistance ==
  (IsProbDist /\ pc = "done") =>
    /\ \A k \in 1..Len(out.pre) :
         RescaledWithin(Unravel(out.pre[k], pre_size), Unravel(out.post[k], post_size),
                        pre_size, post_size, par.dist)
    /\ (par.prob = Den /\ par.pre_ratio = Den /\ par.include_self) =>
         \A a \in 0..(pre_num - 1), b \in 0..(post_num - 1) :
           RescaledWithin(Unravel(a, pre_size), Unravel(b, post_size), pre_size, post_size, par.dist)
             => EdgeCount(out, a, b) = 1

\* C17: ProbDist(dist = 0, prob = 1, pre_ratio = 1, include_self = True) on two
\* identical lines of n points returns exactly the n edges (a, a), once each.
C17_SelfEdgesOnly ==
  (IsProbDist /\ pc = "done" /\ par.dist = 0 /\ par.prob = Den /\ par.pre_ratio = Den
     /\ par.include_self /\ Len(pre_size) = 1 /\ pre_size = post_size) =>
    /\ \A a, b \in 0..(pre_num - 1) : EdgeCount(out, a, b) = (IF a = b THEN 1 ELSE 0)
    /\ EntryCount(out) = pre_num
    /\ Len(out.pre) = Len(out.post)

C17_Witness ==
  /\ IsProbDist /\ pc = "done" /\ par.dist = 0 /\ par.prob = Den /\ par.pre_ratio = Den
  /\ par.include_self
  /\ pre_size = <<PDMaxLen>>
  /\ post_size = <<PDMaxLen>>
  /\ out.pre = Arange(PDMaxLen)

(***************************************************************************)
(* GaussianProb                                                            *)
(*                                                                         *)
(* The probability exp(-(d / sigma)^2 / 2) of a cell is followed by what   *)
(* decides the comparison with a draw: it is 1 where the distance d is 0   *)
(* (after normalize, where d is the smallest distance of the matrix);      *)
(* elsewhere it lies in (0, 1/Den) for a "narrow" sigma and in             *)
(* [(Den-1)/Den, 1) for a "wide" one.  rng.random(prob_mat.shape) is drawn *)
(* a row at a time, one value for the cells of a row.                      *)
(***************************************************************************)
GPMaxLen == 3

\* the shapes tried: lines of 1..GPMaxLen neurons, two grids, two boxes
GPShapes == {<<n>> : n \in 1..GPMaxLen} \cup {<<1, 2>>, <<2, 2>>, <<2, 2, 1>>, <<1, 2, 2>>}

\* an entry of a per-axis encoding_values: a tuple of len elements, the first
\* one a number or not; (lo, hi) when it is a pair of numbers
GPEntries ==
  {[numeric |-> TRUE, len |-> 2, lo |-> 0, hi |-> 1],
   [numeric |-> TRUE, len |-> 2, lo |-> 0, hi |-> 2],
   [numeric |-> FALSE, len |-> 2, lo |-> 0, hi |-> 0],
   [numeric |-> TRUE, len |-> 3, lo |-> 0, hi |-> 1],
   [numeric |-> TRUE, len |-> 0, lo |-> 0, hi |-> 0]}

\* the arguments tried for encoding_values: None, an empty list, a list of
\* numbers, a list of tuples, a list of strings, and a value that is no list
GPEncodings ==
  {[kind |-> "none"], [kind |-> "empty"], [kind |-> "str_list"], [kind |-> "scalar"]}
    \cup {[kind |-> "shared", vals |-> v] : v \in {<<0, 2>>, <<0>>, <<0, 1, 2>>, <<2, 0>>, <<1, 1>>}}
    \cup {[kind |-> "per_axis", entries |-> e] :
            e \in UNION {[1..n -> GPEntries] : n \in 1..3}}

RECURSIVE GaussianProb_check_entries(_)
\* "for v in self.encoding_values": v[0], then the two assertions
GaussianProb_check_entries(entries) ==
  IF entries = <<>> THEN "none"
  ELSE IF Head(entries).len = 0 THEN "IndexError"
  ELSE IF ~Head(entries).numeric THEN "AssertionError"
  ELSE IF Head(entries).len # 2 THEN "AssertionError"
  ELSE GaussianProb_check_entries(Tail(entries))

\* build_conn, "# value range to encode": the error raised, or "none"
GaussianProb_check(enc, n_axes) ==
  IF enc.kind = "none" THEN "none"
  ELSE IF enc.kind = "scalar" THEN "ConnectorError"
  ELSE IF enc.kind = "empty" THEN "ConnectorError"
  ELSE IF enc.kind = "shared"
       THEN IF Len(enc.vals) # 2 THEN "AssertionError"
            ELSE IF ~(enc.vals[1] < enc.vals[2]) THEN "AssertionError"
            ELSE "none"
  ELSE IF enc.kind = "per_axis"
       THEN IF Len(enc.entries) # n_axes THEN "ConnectorError"
            ELSE GaussianProb_check_entries(enc.entries)
  ELSE "ConnectorError"

\* value_sizes[k] = v[1] - v[0] of value_ranges
value_size(enc, shape, k) ==
  IF enc.kind = "none" THEN shape[k]
  ELSE IF enc.kind = "shared" THEN enc.vals[2] - enc.vals[1]
  ELSE enc.entries[k].hi - enc.entries[k].lo

RECURSIVE i_coordinate(_, _)
\* the coordinate of row i: "i, pos = divmod(i, s)" for every axis but the last,
\* then i itself
i_coordinate(idx, shape) ==
  IF Len(shape) = 1
  THEN <<idx>>
  ELSE <<idx % Head(shape)>> \o i_coordinate(idx \div Head(shape), Tail(shape))

\* the coordinate of column j in post_values: np.meshgrid(*values) indexes 'xy',
\* so its arrays have the first two axes swapped, and flatten() is row-major
post_coordinate(idx, shape) ==
  IF Len(shape) = 1
  THEN <<idx>>
  ELSE LET swapped == <<shape[2], shape[1]>> \o SubSeq(shape, 3, Len(shape))
           u == Unravel(idx, swapped)
       IN <<u[2], u[1]>> \o SubSeq(u, 3, Len(u))

\* (np.linalg.norm(dists, axis=0))^2 between row a and column b, times the square
\* of np.prod(shape); the values of axis k are lo + c * value_size / shape[k]
dist_square(a, b, enc, shape, periodic_boundary) ==
  LET ca == i_coordinate(a, shape)
      cb == post_coordinate(b, shape)
      e(k) == Abs(ca[k] - cb[k])
      wrapped(k) == IF periodic_boundary /\ 2 * e(k) > shape[k] THEN shape[k] - e(k) ELSE e(k)
      term(k) == wrapped(k) * value_size(enc, shape, k) * (Prod(shape) \div shape[k])
  IN SumSeq([k \in 1..Len(shape) |-> term(k) * term(k)])

\* the smallest dist_square of the matrix: where prob_mat.max() is reached
min_dist_square(enc, shape, periodic_boundary) ==
  LET all == {dist_square(a, b, enc, shape, periodic_boundary) :
                a \in 0..(Prod(shape) - 1), b \in 0..(Prod(shape) - 1)}
  IN CHOOSE m \in all : \A x \in all : m <= x

\* prob_mat[a, b] >= u / Den
prob_at_least(a, b, u) ==
  LET d2 == dist_square(a, b, par.encoding_values, pre_size, par.periodic_boundary)
      one == \/ d2 = 0
             \/ par.normalize /\ d2 = min_dist_square(par.encoding_values, pre_size, par.periodic_boundary)
  IN one \/ par.sigma = "wide" \/ u = 0

\* np.fill_diagonal left out
np_fill_diagonal_skipped(include_self, r, c, v) == v

\* if not self.include_self: np.fill_diagonal(conn_mat, False), on the cell (r, c)
np_fill_diagonal(include_self, r, c, v) == IF (~include_self) /\ r = c THEN FALSE ELSE v

\* GaussianProb.__init__ stores its arguments without a check
GaussianProb_init(sigma, encoding_values, normalize, include_self, periodic_boundary) ==
  /\ pc = "new"
  /\ cls' = "GaussianProb"
  /\ par' = [kind |-> "GaussianProb", sigma |-> sigma, encoding_values |-> encoding_values,
             normalize |-> normalize, include_self |-> include_self,
             periodic_boundary |-> periodic_boundary]
  /\ err' = "none"
  /\ pc' = "made"
  /\ UNCHANGED <<pre_num, post_num, pre_size, post_size, conn, loc, builder, i, pre_ids, insts, sources, cache, first, req, rows, out, seed_gen>>

\* GaussianProb.build_conn up to the loop (the seed is not re-derived)
GaussianProb_build_conn ==
  /\ pc = "bound"
  /\ cls = "GaussianProb"
  /\ IF GaussianProb_check(par.encoding_values, Len(pre_size)) # "none"
     THEN Raise(GaussianProb_check(par.encoding_values, Len(pre_size))) /\ UNCHANGED seed_gen
     ELSE /\ pc' = "loop"
          /\ builder' = "build_conn"
          /\ i' = 0
          /\ rows' = <<>>
          /\ UNCHANGED <<cls, par, pre_num, post_num, pre_size, post_size, conn, loc, err, pre_ids, insts, sources, cache, first, req, out, seed_gen>>

\* one iteration of "for i in range(self.pre_num)" and the row's comparison
\* with its draw
GaussianProb_row ==
  /\ pc = "loop"
  /\ cls = "GaussianProb"
  /\ i < pre_num
  /\ \E u \in 0..(Den - 1) :
       rows' = Append(rows, [b \in 0..(pre_num - 1) |-> prob_at_least(i, b, u)])
  /\ i' = i + 1
  /\ UNCHANGED <<cls, par, pre_num, post_num, pre_size, post_size, conn, loc, pc, err, builder, pre_ids, insts, sources, cache, first, req, out, seed_gen>>

\* after the loop: fill_diagonal; return 'mat', conn_mat
GaussianProb_return ==
  /\ pc = "loop"
  /\ cls = "GaussianProb"
  /\ i = pre_num
  /\ out' = [fmt |-> "mat",
             mat |-> [r \in 0..(pre_num - 1) |->
                        [c \in 0..(pre_num - 1) |->
                           np_fill_diagonal(par.include_self, r, c, rows[r + 1][c])]]]
  /\ pc' = "done"
  /\ UNCHANGED <<cls, par, pre_num, post_num, pre_size, post_size, conn, loc, err, builder, i, pre_ids, insts, sources, cache, first, req, rows, seed_gen>>

NextGaussianProb ==
  \/ \E sigma \in {"narrow", "wide"}, enc \in GPEncodings, normalize \in BOOLEAN,
        include_self \in BOOLEAN, periodic_boundary \in BOOLEAN :
       GaussianProb_init(sigma, enc, normalize, include_self, periodic_boundary)
  \/ \E ps \in GPShapes : BindShape(ps, ps)
  \/ GaussianProb_build_conn
  \/ GaussianProb_row
  \/ GaussianProb_return

SpecGaussianProb == Init /\ [][NextGaussianProb]_vars

IsGaussianProb == pc # "new" /\ par.kind = "GaussianProb"

\* C18: GaussianProb gives the flat index a the same coordinate as a source (row)
\* and as a target (column) on 1, 2 and 3 axes, so that the distance of a neuron
\* to itself is 0 and with include_self = True every (a, a) is connected.
C18_SameCoordinate ==
  (IsGaussianProb /\ pc # "made" /\ Len(pre_size) \in 1..3) =>
    /\ \A a \in 0..(pre_num - 1) : i_coordinate(a, pre_size) = post_coordinate(a, pre_size)
    /\ (pc = "done" /\ par.include_self) => \A a \in 0..(pre_num - 1) : out.mat[a][a]

\* C19: with include_self = False the matrix GaussianProb returns has an
\* all-False diagonal, for every sigma, normalize, periodic_boundary, shape and draw.
C19_DiagonalFalse ==
  (IsGaussianProb /\ pc = "done" /\ ~par.include_self) =>
    \A a \in 0..(pre_num - 1) : ~out.mat[a][a]

C19_Witness ==
  /\ IsGaussianProb /\ pc = "done" /\ ~par.include_self
  /\ pre_size = <<2, 2>>
  /\ par.sigma = "narrow"
  /\ \A a \in 0..(pre_num - 1) : rows[a + 1][a]
  /\ \E a, b \in 0..(pre_num - 1) : a # b /\ out.mat[a][b]

\* whether encoding_values is one of the malformed arguments: an empty list, a
\* per-axis list whose length is not the number of axes, a shared range that is
\* not two numbers with min < max, a per-axis entry that is not a pair of numbers
MalformedEncoding ==
  \/ par.encoding_values.kind = "empty"
  \/ /\ par.encoding_values.kind = "shared"
     /\ ~(Len(par.encoding_values.vals) = 2 /\ par.encoding_values.vals[1] < par.encoding_values.vals[2])
  \/ /\ par.encoding_values.kind = "per_axis"
     /\ \/ Len(par.encoding_values.entries) # Len(pre_size)
        \/ \E k \in 1..Len(par.encoding_values.entries) :
             ~par.encoding_values.entries[k].numeric \/ par.encoding_values.entries[k].len # 2

\* C20: GaussianProb.build_conn ends in ConnectorError, and in no other error,
\* for every malformed encoding_values.
C20_MalformedIsConnectorError ==
  (IsGaussianProb /\ pc \notin {"made", "bound"} /\ MalformedEncoding) =>
    (pc = "build_error" /\ err = "ConnectorError")

(***************************************************************************)
(* Further claims on the growth connectors and on FixedNum                 *)
(***************************************************************************)
\* C25: ScaleFreeBADual.build_conn never reaches a call of _random_subset(seq, m)
\* whose seq holds fewer than m distinct nodes, so the build is never caught in
\* the sampling loop, for every m1, m2 and p its validation accepts.
C25_DualNeverStuck ==
  IsScaleFreeBADual => pc # "hang"

\* C26: SmallWorld with include_self = False returns no True diagonal cell, for
\* every num_neighbor <= N (num_neighbor = N included), prob and directed.
C26_SmallWorldNoDiagonal ==
  (IsSmallWorld /\ pc = "done" /\ ~par.include_self) =>
    \A a \in 0..(pre_num - 1) : ~out.mat[a][a]

\* the undirected edges of the matrix c, a self-loop counting as one
UndirectedEdges(c) == {ab \in (DOMAIN c) \X (DOMAIN c) : ab[1] <= ab[2] /\ c[ab[1]][ab[2]]}

\* C27: with directed = False and num_neighbor < N the graph holds exactly
\* N * floor(num_neighbor / 2) undirected edges after the lattice construction,
\* after every rewiring step and when it is returned.
C27_EdgeCountPreserved ==
  (IsSmallWorld /\ ~par.directed /\ pc \in {"loop", "done"} /\ par.num_neighbor < pre_num) =>
    Cardinality(UndirectedEdges(conn)) = pre_num * (par.num_neighbor \div 2)

C27_Witness ==
  /\ IsSmallWorld /\ ~par.directed /\ pc = "done"
  /\ par.num_neighbor = 2
  /\ pre_num = SWMaxNode
  /\ Cardinality(UndirectedEdges(out.mat) \ UndirectedEdges(Lattice(pre_num, par.num_neighbor))) >= 2

\* C28: SmallWorld with directed = True on a ring with num_neighbor < N and a
\* prob in [0, 1] ends its build by returning a matrix, never in an error.
C28_DirectedCompletes ==
  (IsSmallWorld /\ par.directed /\ BuildEnded /\ Len(pre_size) = 1 /\ pre_size = post_size
     /\ par.num_neighbor < pre_num /\ 0 <= par.prob /\ par.prob <= Den) =>
    (pc = "done" /\ out.fmt = "mat")

\* C29: a build that ends in a validation error has not re-derived the
\* connector's seed from its RNG (here: m out of range in ScaleFreeBA and
\* ScaleFreeBADual).
C29_FailedBuildKeepsSeed ==
  ((IsScaleFreeBA \/ IsScaleFreeBADual) /\ pc = "build_error") => seed_gen = 0

\* "if not include_self and i <= num_total": does the call write prob[i]
writes_prob(num_total, idx, include_self) == (~include_self) /\ idx <= num_total

\* C30: every call of _fixed_num_prob that writes prob[i] has 0 <= i < num_total,
\* for both FixedPreNum and FixedPostNum and every pair of sizes, and no build
\* ends in an out-of-bounds error.
C30_WriteInBounds ==
  IsFixedNum =>
    /\ err # "IndexError"
    /\ (pc = "loop" /\ i < (IF cls = "FixedPreNum" THEN post_num ELSE pre_num)
          /\ writes_prob(Opposite, i, par.include_self)) =>
         (0 <= i /\ i < Opposite)

(***************************************************************************)
(* require(format), the format cache and the Format Converter, followed    *)
(* over ScaleFreeBA and over SmallWorld.  The connector base classes are   *)
(* given by the design document (sections 3, 4.1, 6 and 7); the builders   *)
(* are those above.                                                        *)
(***************************************************************************)
RQMaxNode == 3

RSMaxNode == 3

\* the shapes tried for SmallWorld: rings of 1..RSMaxNode nodes
RSShapes == {<<n>> : n \in 1..RSMaxNode}

\* Mat -> COO: (i, j) for every True cell, in row-major order
mat2coo(mat, n, m) ==
  [fmt |-> "coo",
   pre |-> Concatenate([r \in 1..n |-> [k \in 1..Len(Where(mat[r - 1], m)) |-> r - 1]]),
   post |-> Concatenate([r \in 1..n |-> Where(mat[r - 1], m)])]

\* Mat -> CSR: per row the True columns ascending, indptr the cumulative counts
mat2csr(mat, n, m) ==
  [fmt |-> "csr",
   ind |-> Concatenate([r \in 1..n |-> Where(mat[r - 1], m)]),
   indptr |-> CumSum(<<0>> \o [r \in 1..n |-> Len(Where(mat[r - 1], m))])]

\* the Format Converter on a native dense matrix o
convert(o, f, n, m) ==
  IF f = "mat" THEN o
  ELSE IF f = "coo" THEN mat2coo(o.mat, n, m) ELSE mat2csr(o.mat, n, m)

\* a lookup that never finds the format
cache_miss(f) == NoOut

\* the cache entry of the format f, NoOut when unset
cache_lookup(f) == cache[f]

\* the record of a require(f) call at its start
Called(f) ==
  [fmt |-> f, state |-> "building", again |-> first[f] # NoOut, seed_gen |-> seed_gen, ret |-> NoOut]

\* the record of a require call that returns rep
Returned(r, rep) == [r EXCEPT !.state = "returned", !.ret = rep]

\* require(f) with f in the cache: the cached representation is returned
require_cached(f) ==
  /\ pc \in {"bound", "done"}
  /\ req.state # "building"
  /\ cache_lookup(f) # NoOut
  /\ req' = Returned(Called(f), cache_lookup(f))
  /\ UNCHANGED <<cls, par, pre_num, post_num, pc, err, builder, i, pre_ids, rows, out, seed_gen,
                 pre_size, post_size, conn, loc, insts, sources, cache, first>>

\* require(f) with f not in the cache and a native matrix at hand: the
\* Format Converter turns it into f, which is cached and returned
require_convert(f) ==
  /\ pc = "done"
  /\ req.state # "building"
  /\ cache_lookup(f) = NoOut
  /\ out.fmt = "mat"
  /\ LET rep == convert(out, f, pre_num, post_num)
     IN /\ cache' = [cache EXCEPT ![f] = rep]
        /\ first' = IF first[f] = NoOut THEN [first EXCEPT ![f] = rep] ELSE first
        /\ req' = Returned(Called(f), rep)
  /\ UNCHANGED <<cls, par, pre_num, post_num, pc, err, builder, i, pre_ids, rows, out, seed_gen,
                 pre_size, post_size, conn, loc, insts, sources>>

\* require(f) with f not in the cache: a fresh run of the algorithm starts
require_build(f) ==
  /\ pc \in {"bound", "done"}
  /\ req.state # "building"
  /\ cache_lookup(f) = NoOut
  /\ req' = Called(f)
  /\ pc' = "bound"
  /\ UNCHANGED <<cls, par, pre_num, post_num, err, builder, i, pre_ids, rows, out, seed_gen,
                 pre_size, post_size, conn, loc, insts, sources, cache, first>>

\* the run has returned: its output is converted, cached and returned
require_return ==
  /\ req.state = "building"
  /\ pc = "done"
  /\ LET rep == convert(out, req.fmt, pre_num, post_num)
     IN /\ cache' = [cache EXCEPT ![req.fmt] = rep]
        /\ first' = IF first[req.fmt] = NoOut THEN [first EXCEPT ![req.fmt] = rep] ELSE first
        /\ req' = Returned(req, rep)
  /\ UNCHANGED <<cls, par, pre_num, post_num, pc, err, builder, i, pre_ids, rows, out, seed_gen,
                 pre_size, post_size, conn, loc, insts, sources>>

\* the run has raised: the error leaves require, the cache entry stays unset
require_raise ==
  /\ req.state = "building"
  /\ pc = "build_error"
  /\ req' = [req EXCEPT !.state = "failed"]
  /\ UNCHANGED <<cls, par, pre_num, post_num, pc, err, builder, i, pre_ids, rows, out, seed_gen,
                 pre_size, post_size, conn, loc, insts, sources, cache, first>>

\* build_conn as require calls it
require_ScaleFreeBA_build_conn == req.state = "building" /\ ScaleFreeBA_build_conn

require_SmallWorld_build_conn == req.state = "building" /\ SmallWorld_build_conn

NextRequire ==
  \/ \E m \in 0..RQMaxNode, directed \in BOOLEAN : ScaleFreeBA_init(m, directed)
  \/ \E n \in 1..RQMaxNode, q \in 1..RQMaxNode : Bind(n, q)
  \/ \E f \in Formats : require_cached(f)
  \/ \E f \in Formats : require_convert(f)
  \/ \E f \in Formats : require_build(f)
  \/ require_ScaleFreeBA_build_conn
  \/ ScaleFreeBA_attach
  \/ ScaleFreeBA_return
  \/ require_return
  \/ require_raise

SpecRequire == Init /\ [][NextRequire]_vars

NextRequireSmallWorld ==
  \/ \E k \in 0..(RSMaxNode + 1), prob \in ProbValues, directed \in BOOLEAN, include_self \in BOOLEAN :
       SmallWorld_init(k, prob, directed, include_self)
  \/ \E ps \in RSShapes, qs \in RSShapes : BindShape(ps, qs)
  \/ \E f \in Formats : require_cached(f)
  \/ \E f \in Formats : require_convert(f)
  \/ \E f \in Formats : require_build(f)
  \/ require_SmallWorld_build_conn
  \/ SmallWorld_rewire
  \/ SmallWorld_rewire_directed
  \/ SmallWorld_return
  \/ require_return
  \/ require_raise

SpecRequireSmallWorld == Init /\ [][NextRequireSmallWorld]_vars

\* C23: a require(f) for a format f that an earlier require(f) has returned
\* does not run the algorithm (it is never found building and the count of
\* reseedings is as at the call) and returns the representation the first
\* require(f) returned.
C23_RepeatedRequireCached ==
  req.again =>
    /\ req.state = "returned"
    /\ req.ret = first[req.fmt]
    /\ seed_gen = req.seed_gen

\* a repeated require("coo") has returned after the three formats were each
\* built by a run of its own
C23_Witness ==
  /\ req.again /\ req.state = "returned" /\ req.fmt = "coo"
  /\ seed_gen >= 3
  /\ \A f \in Formats : first[f] # NoOut
  /\ mat2coo(first["mat"].mat, pre_num, post_num) # first["coo"]

\* the parameters and shapes SmallWorld is documented for
ValidSmallWorld ==
  /\ Len(pre_size) = 1 /\ pre_size = post_size
  /\ 0 <= par.num_neighbor /\ par.num_neighbor <= pre_num
  /\ 0 <= par.prob /\ par.prob <= Den

\* C24: on a bound connector with valid parameters no require of the dense
\* matrix, the COO or the CSR ends with an error.
C24_RequireReturns ==
  (IsSmallWorld /\ pc # "made" /\ ValidSmallWorld) => req.state # "failed"

(***************************************************************************)
(* Random sources.  Two ProbDist connectors of one set of parameters and   *)
(* shapes (cls, par, pre_size, post_size are those of both), each with the *)
(* seed and the RandomState it owns, each built by a thread of its own,    *)
(* and the generators of the process: the module-level np.random, that     *)
(* nothing in the module seeds, and the generator of numba, one per        *)
(* thread, that numba_seed seeds.  The first build of each is followed.    *)
(***************************************************************************)
SDMaxSeed == 2

SDMaxLen == 2

\* the shapes tried: lines of 1..SDMaxLen points and one grid
SDShapes == {<<n>> : n \in 1..SDMaxLen} \cup {<<2, 2>>}

\* np.random.RandomState(seed): the seed given and the number of draws taken
RandomState(seed) == [seed |-> seed, pos |-> 0]

\* the generator g after n draws
advance(g, n) == [g EXCEPT !.pos = @ + n]

\* the output of a generator n draws ahead: a fixed function of its seed and
\* of the number of draws taken, and of nothing else
raw(g, n) == ((5 * g.seed + g.pos + n) * (5 * g.seed + g.pos + n)) \div 7

\* rng.random(), n draws ahead: k stands for k / Den
random(g, n) == raw(g, 0 + n) % Den

\* rng.randint(1, int(1e7)), scaled to 1..SDMaxSeed
randint(g) == 1 + (raw(g, 0) % SDMaxSeed)

\* SUPPORT_NUMBA as the import found it, and the generators of the process
ProcessSources ==
  [SUPPORT_NUMBA : BOOLEAN,
   np_random : {RandomState(s) : s \in 1..SDMaxSeed},
   numba : {[k \in 1..2 |-> RandomState(0)]}]

InitSeeded == InitConnector /\ sources \in ProcessSources

\* the post positions, ascending, for which _connect_1d .. _connect_4d draws
candidates(pre_pos, qsize, n_dim) ==
  Where([j \in 0..(Prod(qsize) - 1) |->
           /\ within(pre_pos, Unravel(j, qsize), n_dim, par.dist)
           /\ ~(pre_pos = Unravel(j, qsize) /\ ~par.include_self)],
        Prod(qsize))


\* are the edge draws taken from the generator that gave the pre_ratio draw:
\* rng.random() in _connect_1d, np.random.random() in _connect_2d, _3d, _4d,
\* where rng is np.random with numba (the compiled function then draws both
\* from numba's generator) and self.rng without
same_generator(numba_on, n_dim) == numba_on \/ n_dim = 1

\* one call f(pre_pos, pre_size, post_size, n_dim) of the loop of build_conn on
\* st = [rng, numba, np_random, i, rows]: self.rng, the generator of numba in
\* this thread, the module-level np.random, the loop index, the rows gathered
seeded_connect(st, numba_on) ==
  LET pre_pos == Unravel(st.i, pre_size)
      n_dim == Len(pre_size)
      gA == IF numba_on THEN st.numba ELSE st.rng
      d0 == random(gA, 0)
      cand == IF d0 < par.pre_ratio THEN candidates(pre_pos, post_size, n_dim) ELSE <<>>
      same == same_generator(numba_on, n_dim)
      gB == IF same THEN advance(gA, 1) ELSE st.np_random
      draws == [j \in 0..(post_num - 1) |->
                  IF \E k \in 1..Len(cand) : cand[k] = j
                  THEN random(gB, (CHOOSE k \in 1..Len(cand) : cand[k] = j) - 1)
                  ELSE 0]
      gA1 == IF same THEN advance(gA, 1 + Len(cand)) ELSE advance(gA, 1)
  IN [rng |-> IF numba_on THEN st.rng ELSE gA1,
      numba |-> IF numba_on THEN gA1 ELSE st.numba,
      np_random |-> IF same THEN st.np_random ELSE advance(st.np_random, Len(cand)),
      i |-> st.i + 1,
      rows |-> Append(st.rows, connect_nd(pre_pos, pre_size, post_size, n_dim, d0, draws))]

\* 'ij', (np.asarray(connected_pres), np.asarray(connected_posts))
seeded_out(rs) ==
  [fmt |-> "ij",
   pre |-> Concatenate([k \in 1..Len(rs) |-> rs[k].pres]),
   post |-> Concatenate([k \in 1..Len(rs) |-> rs[k].posts])]

\* the other connector of the pair
other(k) == 3 - k

\* ProbDist.__init__, the seed: self.seed = format_seed(seed) of an explicit
\* seed, self.rng = np.random.RandomState(self.seed)
ProbDist_seeded_init(k, seed) ==
  /\ pc = "bound"
  /\ cls = "ProbDist"
  /\ insts[k].pc = "new"
  /\ insts' = [insts EXCEPT ![k] = [pc |-> "made", seed |-> seed, rng |-> RandomState(seed),
                                    i |-> 0, rows |-> <<>>, out |-> NoOut, alone |-> TRUE]]
  /\ UNCHANGED <<cls, par, pre_num, post_num, pc, err, builder, i, pre_ids, rows, out, seed_gen,
                 pre_size, post_size, conn, loc, sources, cache, first, req>>

\* the first build_conn of connector k up to the loop: the check of the
\* dimensions, self.seed = self.rng.randint(1, int(1e7)), numba_seed(self.seed)
ProbDist_seeded_build_conn(k) ==
  /\ insts[k].pc = "made"
  /\ IF Len(pre_size) # Len(post_size)
     THEN /\ insts' = [insts EXCEPT ![k].pc = "build_error"]
          /\ UNCHANGED sources
     ELSE /\ insts' = [insts EXCEPT
                         ![k] = [@ EXCEPT !.seed = randint(insts[k].rng),
                                          !.rng = advance(insts[k].rng, 1),
                                          !.pc = IF Len(pre_size) > 4 THEN "build_error" ELSE "loop",
                                          !.alone = insts[other(k)].pc # "loop"],
                         ![other(k)] = IF insts[other(k)].pc = "loop"
                                       THEN [@ EXCEPT !.alone = FALSE]
                                       ELSE @]
          /\ sources' = IF sources.SUPPORT_NUMBA
                        THEN [sources EXCEPT !.numba[k] = RandomState(randint(insts[k].rng))]
                        ELSE sources
  /\ UNCHANGED <<cls, par, pre_num, post_num, pc, err, builder, i, pre_ids, rows, out, seed_gen,
                 pre_size, post_size, conn, loc, cache, first, req>>

\* one iteration of "for i in range(size)" of connector k
ProbDist_seeded_connect(k) ==
  /\ insts[k].pc = "loop"
  /\ insts[k].i < pre_num
  /\ LET st == seeded_connect([rng |-> insts[k].rng, numba |-> sources.numba[k],
                               np_random |-> sources.np_random,
                               i |-> insts[k].i, rows |-> insts[k].rows],
                              sources.SUPPORT_NUMBA)
     IN /\ insts' = [insts EXCEPT ![k] = [@ EXCEPT !.rng = st.rng, !.i = st.i, !.rows = st.rows]]
        /\ sources' = [sources EXCEPT !.numba[k] = st.numba, !.np_random = st.np_random]
  /\ UNCHANGED <<cls, par, pre_num, post_num, pc, err, builder, i, pre_ids, rows, out, seed_gen,
                 pre_size, post_size, conn, loc, cache, first, req>>

\* the return of connector k
ProbDist_seeded_return(k) ==
  /\ insts[k].pc = "loop"
  /\ insts[k].i = pre_num
  /\ insts' = [insts EXCEPT ![k] = [@ EXCEPT !.pc = "done", !.out = seeded_out(insts[k].rows)]]
  /\ UNCHANGED <<cls, par, pre_num, post_num, pc, err, builder, i, pre_ids, rows, out, seed_gen,
                 pre_size, post_size, conn, loc, sources, cache, first, req>>

NextSeeded ==
  \/ \E dist \in {0, 1}, prob \in 0..Den, pre_ratio \in 0..Den, include_self \in BOOLEAN :
       ProbDist_init(dist, prob, pre_ratio, include_self)
  \/ \E ps \in SDShapes, qs \in SDShapes : BindShape(ps, qs)
  \/ \E k \in 1..2, seed \in 1..SDMaxSeed : ProbDist_seeded_init(k, seed)
  \/ \E k \in 1..2 : ProbDist_seeded_build_conn(k)
  \/ \E k \in 1..2 : ProbDist_seeded_connect(k)
  \/ \E k \in 1..2 : ProbDist_seeded_return(k)

SpecSeeded == InitSeeded /\ [][NextSeeded]_vars

RECURSIVE seeded_run(_, _)
\* the loop of build_conn run to its end with no other build in the process
seeded_run(st, numba_on) ==
  IF st.i >= pre_num THEN st ELSE seeded_run(seeded_connect(st, numba_on), numba_on)

\* what the first build of a connector made with this seed returns when it is
\* the only build of the process, np.random starting as np0
built_alone(seed, np0, numba_on) ==
  seeded_out(seeded_run([rng |-> advance(RandomState(seed), 1),
                         numba |-> RandomState(randint(RandomState(seed))),
                         np_random |-> np0, i |-> 0, rows |-> <<>>], numba_on).rows)

\* C21: two connectors made with the same explicit seed, parameters and
\* shapes, whose first builds ran one after the other, have returned identical
\* representations.
C21_FirstBuildDeterministic ==
  (/\ insts[1].pc = "done" /\ insts[2].pc = "done"
   /\ insts[1].rng.seed = insts[2].rng.seed
   /\ insts[1].alone /\ insts[2].alone) =>
    insts[1].out = insts[2].out

\* C22: under every interleaving of the build steps of the two connectors,
\* what each has returned is what its build returns when it is the only build
\* of the process.
C22_NoInterference ==
  \A k \in 1..2 :
    insts[k].pc = "done" =>
      insts[k].out = built_alone(insts[k].rng.seed, RandomState(sources.np_random.seed),
                                 sources.SUPPORT_NUMBA)

====
